---- MODULE Spec2Model ----
(***************************************************************************)
(* PlecakDB front end: the lexer (src/src/tokenizer.rs) and the            *)
(* recursive-descent parser (src/src/parser.rs).                           *)
(*                                                                         *)
(* Text is a sequence of characters, each character its Unicode code       *)
(* point; a Rust &str is that sequence in UTF-8, so byte offsets are       *)
(* computed from the code points with len_utf8.  Option<T> is a sequence   *)
(* of length 0 (None) or 1 (Some).  Result<T, String> is a record tagged   *)
(* "Ok" or "Err"; a Rust panic (an index or slice out of range) is the     *)
(* tag "Panic": the call never returns and the thread unwinds.             *)
(***************************************************************************)
EXTENDS Integers, Sequences, FiniteSets, TLC

VARIABLES
    input,             \* Tokenizer.input: the statement text
    current_position,  \* Tokenizer.current_position: a BYTE offset into input
    tokens,            \* Tokenizer.tokens, borrowed by Parser.tokens (main.rs:62-63)
    tokenize_pc,       \* "idle" | "tokenize" (in the loop) | "returned" | "panicked"
    tokenize_result,   \* <<>> while running, else <<Ok(..)>> or <<Err(..)>> as returned
    position,          \* Parser.position: an index into tokens (0-based)
    parse_pc,          \* "idle" | "new" (constructed) | "returned" | "panicked",
                       \* or inside parse(): the statement of the handler to run next
    locals,            \* the handler's let-bindings so far: table, columns, values, changes
    returned           \* the values the parse() calls on this Parser returned, in order

vars == <<input, current_position, tokens, tokenize_pc, tokenize_result,
          position, parse_pc, locals, returned>>

lexer_vars == <<input, current_position, tokenize_pc, tokenize_result>>

parser_vars == <<position, parse_pc, locals, returned>>

----------------------------------------------------------------------------
(* Bounds of the model.                                                    *)

MaxInputLen == 3    \* characters of lexer input
MaxSeqLen == 2      \* tokens of an arbitrary parser input
MaxList == 2        \* elements of a list in a generated statement
MaxCalls == 2       \* parse() calls on one Parser

----------------------------------------------------------------------------
(* Result<T, String>, Option<T> and panics.                                *)

Ok(v) == [tag |-> "Ok", val |-> v]

\* An error string; `args` are the values format! interpolates into it.
Err(msg, args) == [tag |-> "Err", msg |-> msg, args |-> args]

Panic(why) == [tag |-> "Panic", why |-> why]

None == <<>>

Some(v) == <<v>>

Unit == <<>>

\* The let-bindings of a parser handler before any is made
NoLocals == [table |-> None, columns |-> <<>>, values |-> <<>>, changes |-> <<>>]

----------------------------------------------------------------------------
(* enum Token                                                              *)

Keyword(s) == [kind |-> "Keyword", text |-> s]

Identifier(s) == [kind |-> "Identifier", text |-> s]

\* An f64 read from a decimal literal: mant * 10^(-exp), without trailing
\* fraction zeros, so that 1.50 and 1.5 are the same value.  Literals of the
\* lengths modelled are far below the 17 significant digits where two
\* decimals can round to one f64.
Float(mant, exp) == [kind |-> "Float", mant |-> mant, exp |-> exp]

Number(v) == [kind |-> "Number", value |-> v]

StringLiteral(s) == [kind |-> "StringLiteral", text |-> s]

Operator(s) == [kind |-> "Operator", text |-> s]

Delimiter(c) == [kind |-> "Delimiter", ch |-> c]

----------------------------------------------------------------------------
(* Characters (code points) and the char methods the lexer calls, for the  *)
(* code points below 256.                                                  *)

ch == [space |-> 32, bang |-> 33, dquote |-> 34, hash |-> 35, amp |-> 38,
       quote |-> 39, lparen |-> 40, rparen |-> 41, star |-> 42, plus |-> 43,
       comma |-> 44, minus |-> 45, dot |-> 46, slash |-> 47, zero |-> 48,
       nine |-> 57, semicolon |-> 59, lt |-> 60, eq |-> 61, gt |-> 62,
       underscore |-> 95, pipe |-> 124, nbsp |-> 160, e_acute |-> 233]

\* char::is_alphabetic
is_alphabetic(c) ==
    \/ c \in 65..90
    \/ c \in 97..122
    \/ c \in {170, 181, 186}
    \/ c \in (192..214) \cup (216..246) \cup (248..255)

\* char::is_whitespace
is_whitespace(c) == c \in (9..13) \cup {32, 133, 160}

\* char::is_digit(10)
is_digit(c) == c \in ch.zero..ch.nine

\* char::to_uppercase: the characters c upper-cases to
char_to_uppercase(c) ==
    IF c \in 97..122 THEN <<c - 32>>
    ELSE IF c = 223 THEN <<83, 83>>
    ELSE IF c = 181 THEN <<924>>
    ELSE IF c = 255 THEN <<376>>
    ELSE IF c \in (224..246) \cup (248..254) THEN <<c - 32>>
    ELSE <<c>>

RECURSIVE to_uppercase(_)
\* str::to_uppercase
to_uppercase(s) ==
    IF s = <<>> THEN <<>>
    ELSE char_to_uppercase(Head(s)) \o to_uppercase(Tail(s))

\* char::len_utf8
len_utf8(c) ==
    IF c < 128 THEN 1 ELSE IF c < 2048 THEN 2 ELSE IF c < 65536 THEN 3 ELSE 4

RECURSIVE str_len(_)
\* str::len: the length in bytes
str_len(s) == IF s = <<>> THEN 0 ELSE len_utf8(Head(s)) + str_len(Tail(s))

\* str::is_char_boundary: offset b is the start of a character or the end
is_char_boundary(s, b) ==
    \E k \in 0..Len(s) : str_len(SubSeq(s, 1, k)) = b

\* The number of characters before byte offset b, a character boundary
chars_before(s, b) ==
    CHOOSE k \in 0..Len(s) : str_len(SubSeq(s, 1, k)) = b

\* str::get(b..): None when b is past the end or inside a character
str_get_from(s, b) ==
    IF is_char_boundary(s, b)
    THEN Some(SubSeq(s, chars_before(s, b) + 1, Len(s)))
    ELSE None

\* Index<Range<usize>> for str, s[a..b]: panics unless both ends are
\* character boundaries with a <= b
str_index(s, a, b) ==
    IF a <= b /\ is_char_boundary(s, a) /\ is_char_boundary(s, b)
    THEN Ok(SubSeq(s, chars_before(s, a) + 1, chars_before(s, b)))
    ELSE Panic("byte index is not a char boundary")

----------------------------------------------------------------------------
(* struct Tokenizer: `self` is [input, current_position, tokens].  A       *)
(* handler returns [self |-> the Tokenizer as it leaves it, ret |-> its    *)
(* Result or a Panic].                                                     *)

\* Tokenizer::current_char
current_char(self) ==
    LET rest == str_get_from(self.input, self.current_position)
    IN  IF rest = None THEN None
        ELSE IF rest[1] = <<>> THEN None
        ELSE Some(Head(rest[1]))

\* Tokenizer::advance: one BYTE forward
Tokenizer_advance(self) ==
    [self EXCEPT !.current_position = self.current_position + 1]

\* self.tokens.push(token)
push_token(self, token) == [self EXCEPT !.tokens = Append(self.tokens, token)]

RECURSIVE literals_loop(_, _, _)
\* The while-let loop of handle_literals
literals_loop(self, quote_char, start) ==
    LET c == current_char(self)
    IN  IF c = None
        THEN [self |-> self, ret |-> Err("Unterminated string literal", <<>>)]
        ELSE IF c[1] = quote_char
        THEN LET literal == str_index(self.input, start, self.current_position)
             IN  IF literal.tag = "Panic"
                 THEN [self |-> self, ret |-> literal]
                 ELSE [self |-> Tokenizer_advance(
                                    push_token(self, StringLiteral(literal.val))),
                       ret |-> Ok(Unit)]
        ELSE literals_loop(Tokenizer_advance(self), quote_char, start)

\* Tokenizer::handle_literals
handle_literals(self) ==
    LET c == current_char(self)
    IN  IF c = None
        THEN [self |-> self,
              ret |-> Err("Expected a quote character but found end of input", <<>>)]
        ELSE LET after == Tokenizer_advance(self)
             IN  literals_loop(after, c[1], after.current_position)

\* The characters a word is scanned over (handle_alphabetic's loop test)
is_word_char(c) == is_alphabetic(c) \/ c = ch.underscore

RECURSIVE alphabetic_loop(_)
\* The while-let loop of handle_alphabetic
alphabetic_loop(self) ==
    LET c == current_char(self)
    IN  IF c # None /\ is_word_char(c[1])
        THEN alphabetic_loop(Tokenizer_advance(self))
        ELSE self

\* The reserved words of handle_alphabetic, as text
kw == [SELECT |-> <<83, 69, 76, 69, 67, 84>>,
       FROM   |-> <<70, 82, 79, 77>>,
       WHERE  |-> <<87, 72, 69, 82, 69>>,
       ORDER  |-> <<79, 82, 68, 69, 82>>,
       GROUP  |-> <<71, 82, 79, 85, 80>>,
       DELETE |-> <<68, 69, 76, 69, 84, 69>>,
       UPDATE |-> <<85, 80, 68, 65, 84, 69>>,
       SET    |-> <<83, 69, 84>>,
       INSERT |-> <<73, 78, 83, 69, 82, 84>>,
       INTO   |-> <<73, 78, 84, 79>>,
       VALUES |-> <<86, 65, 76, 85, 69, 83>>]

keywords == {kw[k] : k \in DOMAIN kw}

\* Tokenizer::handle_alphabetic
handle_alphabetic(self) ==
    LET start == self.current_position
        after == alphabetic_loop(self)
        phrase == str_index(self.input, start, after.current_position)
    IN  IF phrase.tag = "Panic"
        THEN [self |-> after, ret |-> phrase]
        ELSE LET upper_phrase == to_uppercase(phrase.val)
             IN  IF upper_phrase \in keywords
                 THEN [self |-> push_token(after, Keyword(upper_phrase)),
                       ret |-> Ok(Unit)]
                 ELSE [self |-> push_token(after, Identifier(phrase.val)),
                       ret |-> Ok(Unit)]

RECURSIVE numeric_loop(_, _)
\* The while-let loop of handle_numeric: [self, has_dot] as it ends
numeric_loop(self, has_dot) ==
    LET c == current_char(self)
    IN  IF c # None /\ is_digit(c[1])
        THEN numeric_loop(Tokenizer_advance(self), has_dot)
        ELSE IF c # None /\ c[1] = ch.dot /\ ~has_dot
        THEN numeric_loop(Tokenizer_advance(self), TRUE)
        ELSE [self |-> self, has_dot |-> has_dot]

RECURSIVE digits_value(_)
\* The number a run of decimal digits spells (leading zeros count for
\* nothing); exceeds_i64 is decided on the digits before this is computed
digits_value(s) ==
    IF s = <<>> THEN 0
    ELSE 10 * digits_value(SubSeq(s, 1, Len(s) - 1)) + (s[Len(s)] - ch.zero)

RECURSIVE strip_leading_zeros(_)
strip_leading_zeros(s) ==
    IF Len(s) > 1 /\ Head(s) = ch.zero THEN strip_leading_zeros(Tail(s)) ELSE s

\* i64::MAX, 9223372036854775807, as digits
i64_max_digits ==
    <<57, 50, 50, 51, 51, 55, 50, 48, 51, 54, 56, 53, 52, 55, 55, 53, 56, 48, 55>>

\* Whether the digits s (no leading zeros) spell a number above i64::MAX
exceeds_i64(s) ==
    \/ Len(s) > Len(i64_max_digits)
    \/ /\ Len(s) = Len(i64_max_digits)
       /\ \E i \in 1..Len(s) :
            /\ s[i] > i64_max_digits[i]
            /\ \A j \in 1..(i - 1) : s[j] = i64_max_digits[j]

\* str::parse::<i64> of a non-empty run of digits
parse_i64(s) ==
    IF exceeds_i64(strip_leading_zeros(s))
    THEN Err("Failed to parse integer", <<>>)
    ELSE Ok(Number(digits_value(s)))

RECURSIVE normalize_float(_, _)
\* Drops the trailing zeros of the fraction
normalize_float(mant, exp) ==
    IF exp > 0 /\ mant % 10 = 0 THEN normalize_float(mant \div 10, exp - 1)
    ELSE Float(mant, exp)

\* str::parse::<f64> of digits with one '.', the first character a digit:
\* always a value
parse_f64(s) ==
    LET dot == CHOOSE i \in 1..Len(s) : s[i] = ch.dot
        digits == SubSeq(s, 1, dot - 1) \o SubSeq(s, dot + 1, Len(s))
    IN  Ok(normalize_float(digits_value(digits), Len(s) - dot))

\* Tokenizer::handle_numeric
handle_numeric(self) ==
    LET start == self.current_position
        scan == numeric_loop(self, FALSE)
        after == scan.self
        text == str_index(self.input, start, after.current_position)
    IN  IF text.tag = "Panic"
        THEN [self |-> after, ret |-> text]
        ELSE LET number == IF scan.has_dot THEN parse_f64(text.val)
                           ELSE parse_i64(text.val)
             IN  IF number.tag = "Ok"
                 THEN [self |-> push_token(after, number.val), ret |-> Ok(Unit)]
                 ELSE [self |-> after, ret |-> number]

\* handle_operator as it would be with only its '!' branch: "<=" and ">=" are
\* not joined
handle_operator_bang_only(self, initial_char) ==
    LET after == Tokenizer_advance(self)
        next_char == current_char(after)
    IN  IF next_char # None /\ initial_char = ch.bang /\ next_char[1] = ch.eq
        THEN [self |-> push_token(Tokenizer_advance(after),
                                  Operator(<<initial_char, next_char[1]>>)),
              ret |-> Ok(Unit)]
        ELSE [self |-> push_token(after, Operator(<<initial_char>>)),
              ret |-> Ok(Unit)]

\* Tokenizer::handle_operator
handle_operator(self, initial_char) ==
    LET after == Tokenizer_advance(self)
        next_char == current_char(after)
    IN  IF next_char # None /\ next_char[1] = ch.eq
        THEN [self |-> push_token(Tokenizer_advance(after),
                                  Operator(<<initial_char, next_char[1]>>)),
              ret |-> Ok(Unit)]
        ELSE IF next_char # None /\ initial_char = ch.bang /\ next_char[1] = ch.eq
        THEN [self |-> push_token(Tokenizer_advance(after),
                                  Operator(<<initial_char, next_char[1]>>)),
              ret |-> Ok(Unit)]
        ELSE [self |-> push_token(after, Operator(<<initial_char>>)),
              ret |-> Ok(Unit)]

\* Tokenizer::handle_logical_operator
handle_logical_operator(self, initial_char) ==
    LET after == Tokenizer_advance(self)
        next_char == current_char(after)
    IN  IF next_char # None /\ next_char[1] = initial_char
        THEN [self |-> push_token(Tokenizer_advance(after),
                                  Operator(<<initial_char, next_char[1]>>)),
              ret |-> Ok(Unit)]
        ELSE [self |-> push_token(after, Operator(<<initial_char>>)),
              ret |-> Ok(Unit)]

\* The match arms of tokenize, in the order the match tries them
is_quote(c) == c = ch.dquote \/ c = ch.quote

is_delimiter(c) == c \in {ch.semicolon, ch.comma, ch.lparen, ch.rparen}

is_arithmetic(c) == c \in {ch.plus, ch.minus, ch.star, ch.slash, ch.eq}

is_comparison(c) == c \in {ch.lt, ch.gt, ch.bang}

is_logical(c) == c \in {ch.amp, ch.pipe}

\* The arm of tokenize's match that a character c takes: the first whose
\* guard holds
match_arm(c) ==
    IF is_whitespace(c) THEN "whitespace"
    ELSE IF is_quote(c) THEN "literal"
    ELSE IF is_delimiter(c) THEN "delimiter"
    ELSE IF is_arithmetic(c) THEN "arithmetic"
    ELSE IF is_comparison(c) THEN "operator"
    ELSE IF is_logical(c) THEN "logical"
    ELSE IF is_alphabetic(c) THEN "alphabetic"
    ELSE IF is_digit(c) THEN "numeric"
    ELSE "unrecognized"

----------------------------------------------------------------------------
(* tokenize(): one action per turn of its loop, by the arm taken.          *)

Self == [input |-> input, current_position |-> current_position,
         tokens |-> tokens]

\* The loop test of tokenize
InLoop == tokenize_pc = "tokenize" /\ current_position < str_len(input)

\* The turn is on a character that takes arm `arm`
AtArm(arm) ==
    /\ InLoop
    /\ current_char(Self) # None
    /\ match_arm(current_char(Self)[1]) = arm

\* What a handler leaves behind: the loop goes on after Ok, `?` returns an
\* Err to the caller, a panic unwinds
Handled(r) ==
    /\ current_position' = r.self.current_position
    /\ tokens' = r.self.tokens
    /\ tokenize_pc' = CASE r.ret.tag = "Ok" -> "tokenize"
                        [] r.ret.tag = "Err" -> "returned"
                        [] r.ret.tag = "Panic" -> "panicked"
    /\ tokenize_result' = IF r.ret.tag = "Err" THEN Some(r.ret) ELSE None
    /\ UNCHANGED <<input, parser_vars>>

\* return Ok(&self.tokens)
ReturnTokens ==
    /\ tokenize_pc' = "returned"
    /\ tokenize_result' = Some(Ok(tokens))
    /\ UNCHANGED <<input, current_position, tokens, parser_vars>>

TokenizeWhitespace ==
    /\ AtArm("whitespace")
    /\ Handled([self |-> Tokenizer_advance(Self), ret |-> Ok(Unit)])

TokenizeLiteral ==
    /\ AtArm("literal")
    /\ Handled(handle_literals(Self))

TokenizeDelimiter ==
    /\ AtArm("delimiter")
    /\ Handled([self |-> Tokenizer_advance(
                             push_token(Self, Delimiter(current_char(Self)[1]))),
                ret |-> Ok(Unit)])

TokenizeArithmetic ==
    /\ AtArm("arithmetic")
    /\ Handled([self |-> Tokenizer_advance(
                             push_token(Self, Operator(current_char(Self)))),
                ret |-> Ok(Unit)])

TokenizeOperator ==
    /\ AtArm("operator")
    /\ Handled(handle_operator(Self, current_char(Self)[1]))

TokenizeLogical ==
    /\ AtArm("logical")
    /\ Handled(handle_logical_operator(Self, current_char(Self)[1]))

TokenizeAlphabetic ==
    /\ AtArm("alphabetic")
    /\ Handled(handle_alphabetic(Self))

TokenizeNumeric ==
    /\ AtArm("numeric")
    /\ Handled(handle_numeric(Self))

TokenizeUnrecognized ==
    /\ AtArm("unrecognized")
    /\ Handled([self |-> Self,
                ret |-> Err("Unrecognized token at position", <<current_position>>)])

\* The arm `None => return Ok(&self.tokens)`: the cursor is inside the input
\* and current_char finds no character there
TokenizeNone ==
    /\ InLoop
    /\ current_char(Self) = None
    /\ ReturnTokens

\* The loop test fails: the final Ok(&self.tokens)
TokenizeEnd ==
    /\ tokenize_pc = "tokenize"
    /\ ~(current_position < str_len(input))
    /\ ReturnTokens

\* The characters of the modelled inputs: one or more for every arm of
\* tokenize, among them a two-byte letter (e acute) and a two-byte white
\* space (no-break space); the digit 1 and the letters s, E, t, which spell
\* the reserved word SET in mixed case
Alphabet ==
    {ch.space, ch.nbsp, ch.quote, ch.dquote, ch.semicolon, ch.eq, ch.lt,
     ch.gt, ch.bang, ch.amp, ch.pipe, ch.underscore, ch.dot, ch.hash,
     ch.e_acute, 49, 115, 69, 116}

RECURSIVE SeqsUpTo(_, _)
\* The sequences over S of length at most n
SeqsUpTo(S, n) ==
    IF n = 0 THEN {<<>>}
    ELSE LET shorter == SeqsUpTo(S, n - 1)
         IN  shorter \cup {Append(s, x) : s \in shorter, x \in S}

Inputs == SeqsUpTo(Alphabet, MaxInputLen)

\* Tokenizer::new(input) followed by the call of tokenize()
InitTokenizer ==
    /\ input \in Inputs
    /\ current_position = 0
    /\ tokens = <<>>
    /\ tokenize_pc = "tokenize"
    /\ tokenize_result = None
    /\ position = 0
    /\ parse_pc = "idle"
    /\ locals = NoLocals
    /\ returned = <<>>

NextTokenizer ==
    \/ TokenizeWhitespace
    \/ TokenizeLiteral
    \/ TokenizeDelimiter
    \/ TokenizeArithmetic
    \/ TokenizeOperator
    \/ TokenizeLogical
    \/ TokenizeAlphabetic
    \/ TokenizeNumeric
    \/ TokenizeUnrecognized
    \/ TokenizeNone
    \/ TokenizeEnd

SpecTokenizer == InitTokenizer /\ [][NextTokenizer]_vars

----------------------------------------------------------------------------
(* The syntax tree of parser.rs.  Column and Table are both one name.      *)

Column(name) == [name |-> name]

Table(name) == [name |-> name]

\* enum Value
Value_Integer(v) == [variant |-> "Integer", value |-> v]

Value_Float(token) == [variant |-> "Float", mant |-> token.mant, exp |-> token.exp]

Value_Text(s) == [variant |-> "Text", text |-> s]

\* enum ConditionEnum
Field(column) == [variant |-> "Field", column |-> column]

Value(value) == [variant |-> "Value", value |-> value]

Condition(left, operator, right) ==
    [left |-> left, operator |-> operator, right |-> right]

UpdateSet(column, value) == [column |-> column, value |-> value]

\* enum Query and its four structs
SelectQuery(columns, table, where_clause) ==
    [variant |-> "Select", selected_columns |-> columns, table_name |-> table,
     where_clause |-> where_clause]

InsertQuery(table, columns, values) ==
    [variant |-> "Insert", table_name |-> table, columns |-> columns,
     values |-> values]

UpdateQuery(table, changes, where_clause) ==
    [variant |-> "Update", table_name |-> table, changes |-> changes,
     where_clause |-> where_clause]

DeleteQuery(table, where_clause) ==
    [variant |-> "Delete", table_name |-> table, where_clause |-> where_clause]

----------------------------------------------------------------------------
(* struct Parser: `self` is [tokens, position].  A method returns          *)
(* [self |-> the Parser as it leaves it, ret |-> its value, Result or a    *)
(* Panic]; the value of a method that returns no Result is Ok(value).      *)

\* Vec indexing, self.tokens[self.position]: panics past the end
token_at(self) ==
    IF self.position < Len(self.tokens)
    THEN Ok(self.tokens[self.position + 1])
    ELSE Panic("index out of bounds")

\* Parser::advance
Parser_advance(self) ==
    LET token == token_at(self)
    IN  IF token.tag = "Panic"
        THEN [self |-> self, ret |-> token]
        ELSE [self |-> [self EXCEPT !.position = self.position + 1],
              ret |-> token]

\* Parser::peek
peek(self) == token_at(self)

\* Parser::check_keyword
check_keyword(self, keyword) ==
    LET token == peek(self)
    IN  IF token.tag = "Panic" THEN token
        ELSE IF token.val.kind = "Keyword" THEN Ok(token.val.text = keyword)
        ELSE Ok(FALSE)

\* Parser::check
check(self, expected) ==
    LET token == peek(self)
    IN  IF token.tag = "Panic" THEN token ELSE Ok(token.val = expected)

\* consume_token as it would be without its check: it advances over whatever
\* token is there
consume_token_unchecked(self, keyword) ==
    LET a == Parser_advance(self)
    IN  IF a.ret.tag = "Panic" THEN a ELSE [self |-> a.self, ret |-> Ok(Unit)]

\* Parser::consume_token
consume_token(self, keyword) ==
    LET matches == check(self, keyword)
    IN  IF matches.tag = "Panic" THEN [self |-> self, ret |-> matches]
        ELSE IF matches.val
        THEN [self |-> Parser_advance(self).self, ret |-> Ok(Unit)]
        ELSE [self |-> self,
              ret |-> Err("Expected {:?}, found {:?}", <<keyword, peek(self).val>>)]

\* parse_column as it would be if it took a Keyword for a name as well
parse_column_any_word(self) ==
    LET a == Parser_advance(self)
    IN  IF a.ret.tag = "Panic" THEN a
        ELSE IF a.ret.val.kind \in {"Identifier", "Keyword"}
        THEN [self |-> a.self, ret |-> Ok(Column(a.ret.val.text))]
        ELSE [self |-> a.self, ret |-> Err("Expected column name", <<>>)]

\* Parser::parse_column
parse_column(self) ==
    LET a == Parser_advance(self)
    IN  IF a.ret.tag = "Panic" THEN a
        ELSE IF a.ret.val.kind = "Identifier"
        THEN [self |-> a.self, ret |-> Ok(Column(a.ret.val.text))]
        ELSE [self |-> a.self, ret |-> Err("Expected column name", <<>>)]

\* Parser::parse_table
parse_table(self) ==
    LET a == Parser_advance(self)
    IN  IF a.ret.tag = "Panic" THEN a
        ELSE IF a.ret.val.kind = "Identifier"
        THEN [self |-> a.self, ret |-> Ok(Table(a.ret.val.text))]
        ELSE [self |-> a.self, ret |-> Err("Expected table name", <<>>)]

\* Parser::parse_value
parse_value(self) ==
    LET a == Parser_advance(self)
        token == a.ret.val
    IN  IF a.ret.tag = "Panic" THEN a
        ELSE IF token.kind = "Float"
        THEN [self |-> a.self, ret |-> Ok(Value_Float(token))]
        ELSE IF token.kind = "Number"
        THEN [self |-> a.self, ret |-> Ok(Value_Integer(token.value))]
        ELSE IF token.kind = "StringLiteral"
        THEN [self |-> a.self, ret |-> Ok(Value_Text(token.text))]
        ELSE [self |-> a.self, ret |-> Err("Expected value", <<>>)]

\* Parser::parse_expression
parse_expression(self) ==
    LET a == Parser_advance(self)
        token == a.ret.val
    IN  IF a.ret.tag = "Panic" THEN a
        ELSE IF token.kind = "Identifier"
        THEN [self |-> a.self, ret |-> Ok(Field(Column(token.text)))]
        ELSE IF token.kind = "StringLiteral"
        THEN [self |-> a.self, ret |-> Ok(Value(Value_Text(token.text)))]
        ELSE IF token.kind = "Float"
        THEN [self |-> a.self, ret |-> Ok(Value(Value_Float(token)))]
        ELSE IF token.kind = "Number"
        THEN [self |-> a.self, ret |-> Ok(Value(Value_Integer(token.value)))]
        ELSE [self |-> a.self, ret |-> Err("Expected expression", <<>>)]

\* Parser::parse_operator
parse_operator(self) ==
    LET a == Parser_advance(self)
        token == a.ret.val
    IN  IF a.ret.tag = "Panic" THEN a
        ELSE IF token.kind = "Operator"
        THEN [self |-> a.self,
              ret |-> CASE token.text = <<ch.eq>> -> Ok("Equal")
                        [] token.text = <<ch.bang, ch.eq>> -> Ok("NotEqual")
                        [] token.text = <<ch.gt>> -> Ok("GreaterThan")
                        [] token.text = <<ch.lt>> -> Ok("LessThan")
                        [] token.text = <<ch.gt, ch.eq>> -> Ok("GreaterOrEqual")
                        [] token.text = <<ch.lt, ch.eq>> -> Ok("LessOrEqual")
                        [] OTHER -> Err("Unknown operator: {}", <<token>>)]
        ELSE [self |-> a.self, ret |-> Err("Expected operator!", <<>>)]

\* Parser::parse_condition
parse_condition(self) ==
    LET left == parse_expression(self)
    IN  IF left.ret.tag # "Ok" THEN left
        ELSE LET operator == parse_operator(left.self)
             IN  IF operator.ret.tag # "Ok" THEN operator
                 ELSE LET right == parse_expression(operator.self)
                      IN  IF right.ret.tag # "Ok" THEN right
                          ELSE [self |-> right.self,
                                ret |-> Ok(Condition(left.ret.val,
                                                     operator.ret.val,
                                                     right.ret.val))]

\* Parser::parse_set
parse_set(self) ==
    LET column == parse_column(self)
    IN  IF column.ret.tag # "Ok" THEN column
        ELSE LET a == Parser_advance(column.self)
             IN  IF a.ret.tag = "Panic" THEN a
                 ELSE IF a.ret.val.kind # "Operator"
                 THEN [self |-> a.self,
                       ret |-> Err("Expected '=' operator in SET clause", <<>>)]
                 ELSE IF a.ret.val.text # <<ch.eq>>
                 THEN [self |-> a.self,
                       ret |-> Err("Expected '=' in SET clause", <<>>)]
                 ELSE LET value == parse_value(a.self)
                      IN  IF value.ret.tag # "Ok" THEN value
                          ELSE [self |-> value.self,
                                ret |-> Ok(UpdateSet(column.ret.val,
                                                     value.ret.val))]

\* The test that ends a turn of a list loop: peek() == &Token::Delimiter(',').
\* Ok(TRUE) to go on (the ',' is consumed by the caller), Ok(FALSE) to break.
at_comma(self) ==
    LET token == peek(self)
    IN  IF token.tag = "Panic" THEN token
        ELSE Ok(token.val = Delimiter(ch.comma))

\* The WHERE part that handle_select, handle_update and handle_delete each
\* spell out: if check_keyword("WHERE") { advance(); Some(parse_condition()?) }
\* else { None }
where_clause(self) ==
    LET found == check_keyword(self, kw.WHERE)
    IN  IF found.tag = "Panic" THEN [self |-> self, ret |-> found]
        ELSE IF found.val
        THEN LET condition == parse_condition(Parser_advance(self).self)
             IN  IF condition.ret.tag # "Ok" THEN condition
                 ELSE [self |-> condition.self,
                       ret |-> Ok(Some(condition.ret.val))]
        ELSE [self |-> self, ret |-> Ok(None)]

\* dispatch as it would be with one error for every start that names no
\* statement
dispatch_one_error(start) ==
    IF start.kind = "Keyword" /\ start.text = kw.SELECT THEN Ok("handle_select")
    ELSE IF start.kind = "Keyword" /\ start.text = kw.INSERT THEN Ok("handle_insert")
    ELSE IF start.kind = "Keyword" /\ start.text = kw.UPDATE THEN Ok("handle_update")
    ELSE IF start.kind = "Keyword" /\ start.text = kw.DELETE THEN Ok("handle_delete")
    ELSE Err("Invalid query type", <<>>)

\* The match of parse() on the token it starts with: the handler to call, or
\* the error
dispatch(start) ==
    IF start.kind = "Keyword"
    THEN CASE start.text = kw.SELECT -> Ok("handle_select")
           [] start.text = kw.INSERT -> Ok("handle_insert")
           [] start.text = kw.UPDATE -> Ok("handle_update")
           [] start.text = kw.DELETE -> Ok("handle_delete")
           [] OTHER -> Err("Invalid query type", <<>>)
    ELSE Err("Expected keyword token at the beginning!", <<>>)

\* Parser::new
Parser_new(token_stream) == [tokens |-> token_stream, position |-> 0]

----------------------------------------------------------------------------
(* The token sequences a Parser is constructed over.                       *)

semicolon == Delimiter(ch.semicolon)

comma == Delimiter(ch.comma)

\* One or more tokens of every kind: the eleven keywords but GROUP, a name,
\* the three values, a comparison, the '=' of SET, an operator no rule takes,
\* the four delimiters
TokenUniverse ==
    {Keyword(kw[k]) : k \in DOMAIN kw \ {"GROUP"}}
    \cup {Identifier(<<97>>), Number(1), Float(15, 1), StringLiteral(<<120>>)}
    \cup {Operator(<<ch.eq>>), Operator(<<ch.lt, ch.eq>>), Operator(<<ch.bang>>)}
    \cup {semicolon, comma, Delimiter(ch.lparen), Delimiter(ch.rparen)}

\* The non-empty sequences over S of length at most n
SeqsFromTo(S, n) == SeqsUpTo(S, n) \ {<<>>}

RECURSIVE separated(_)
\* The tokens of a list: its elements' tokens joined by ','
separated(elements) ==
    IF Len(elements) = 1 THEN elements[1]
    ELSE elements[1] \o <<comma>> \o separated(Tail(elements))

\* The token sequences of the non-empty lists of at most MaxList elements
Lists(elements) == {separated(l) : l \in SeqsFromTo(elements, MaxList)}

ColumnTokens == {<<Identifier(<<97>>)>>, <<Identifier(<<98>>)>>}

ValueTokens == {<<Number(1)>>, <<StringLiteral(<<120>>)>>}

SetTokens ==
    {<<Identifier(<<97>>), Operator(<<ch.eq>>), Number(1)>>,
     <<Identifier(<<98>>), Operator(<<ch.eq>>), Float(15, 1)>>}

TableToken == Identifier(<<116>>)

\* No WHERE part, or WHERE with a condition
WhereTokens ==
    {<<>>,
     <<Keyword(kw.WHERE), Identifier(<<97>>), Operator(<<ch.eq>>), Number(1)>>,
     <<Keyword(kw.WHERE), StringLiteral(<<120>>), Operator(<<ch.bang, ch.eq>>),
       Identifier(<<98>>)>>,
     <<Keyword(kw.WHERE), Float(15, 1), Operator(<<ch.lt, ch.eq>>),
       Identifier(<<97>>)>>}

\* The complete statements of the grammar the four handlers accept, without
\* a trailing ';'
SelectStatements ==
    {<<Keyword(kw.SELECT)>> \o c \o <<Keyword(kw.FROM), TableToken>> \o w :
        c \in Lists(ColumnTokens), w \in WhereTokens}

InsertStatements ==
    {<<Keyword(kw.INSERT), Keyword(kw.INTO), TableToken, Delimiter(ch.lparen)>>
        \o c \o <<Delimiter(ch.rparen), Keyword(kw.VALUES), Delimiter(ch.lparen)>>
        \o v \o <<Delimiter(ch.rparen)>> :
        c \in Lists(ColumnTokens), v \in Lists(ValueTokens)}

UpdateStatements ==
    {<<Keyword(kw.UPDATE), TableToken, Keyword(kw.SET)>> \o s \o w :
        s \in Lists(SetTokens), w \in WhereTokens}

DeleteStatements ==
    {<<Keyword(kw.DELETE), Keyword(kw.FROM), TableToken>> \o w :
        w \in WhereTokens}

Statements ==
    SelectStatements \cup InsertStatements \cup UpdateStatements
        \cup DeleteStatements

Prefixes(S) == UNION {{SubSeq(s, 1, n) : n \in 0..Len(s)} : s \in S}

\* What follows the prefix of a statement: nothing, any one token, or any one
\* token and the ';' that ends what the REPL submits (main.rs:52-58)
Tails ==
    {<<>>} \cup {<<u>> : u \in TokenUniverse}
           \cup {<<u, semicolon>> : u \in TokenUniverse}

\* The statements with one token left out, as typed and with the final ';'
Dropped(S) ==
    UNION {{SubSeq(s, 1, n - 1) \o SubSeq(s, n + 1, Len(s)) \o e :
                n \in 1..Len(s), e \in {<<>>, <<semicolon>>}} : s \in S}

\* Every sequence of at most MaxSeqLen tokens, every statement cut anywhere
\* and continued by a tail, and every statement with one token left out
TokenSeqs ==
    SeqsUpTo(TokenUniverse, MaxSeqLen)
        \cup {p \o t : p \in Prefixes(Statements), t \in Tails}
        \cup Dropped(Statements)

----------------------------------------------------------------------------------------------------------------------------------------
(* Parser::new and the calls of parse() on the Parser.  A call runs one    *)
(* action per statement of the handler it dispatches to; a list loop runs  *)
(* one action per turn.  parse_pc names the statement to run next.         *)

\* let mut parser = Parser::new(tokens)
InitParser ==
    /\ tokens \in TokenSeqs
    /\ position = Parser_new(tokens).position
    /\ parse_pc = "new"
    /\ locals = NoLocals
    /\ returned = <<>>
    /\ input = <<>>
    /\ current_position = 0
    /\ tokenize_pc = "idle"
    /\ tokenize_result = None

ParserSelf == [tokens |-> tokens, position |-> position]

\* The statements of the four handlers, in order.  Each handler ends by
\* returning its Query.
statements ==
    [handle_select |-> <<"select:columns", "select:from", "select:table",
                         "select:where">>,
     handle_insert |-> <<"insert:into", "insert:table", "insert:open_columns",
                         "insert:columns", "insert:close_columns",
                         "insert:values_keyword", "insert:open_values",
                         "insert:values", "insert:close_values">>,
     handle_update |-> <<"update:table", "update:set", "update:changes",
                         "update:where">>,
     handle_delete |-> <<"delete:from", "delete:table", "delete:where">>]

\* The handler a statement belongs to
handler_of(pc) ==
    CHOOSE h \in DOMAIN statements : \E i \in DOMAIN statements[h] : statements[h][i] = pc

\* The statement after pc in its handler, "return" after the last
following(pc) ==
    LET body == statements[handler_of(pc)]
        i == CHOOSE j \in DOMAIN body : body[j] = pc
    IN  IF i < Len(body) THEN body[i + 1] ELSE "return"

\* The token each consume_token call of the handlers expects
expected ==
    [x \in {"select:from", "delete:from"} |-> Keyword(kw.FROM)]
    @@ [x \in {"insert:into"} |-> Keyword(kw.INTO)]
    @@ [x \in {"update:set"} |-> Keyword(kw.SET)]
    @@ [x \in {"insert:values_keyword"} |-> Keyword(kw.VALUES)]
    @@ [x \in {"insert:open_columns", "insert:open_values"} |-> Delimiter(ch.lparen)]
    @@ [x \in {"insert:close_columns", "insert:close_values"} |-> Delimiter(ch.rparen)]

\* The Query a handler returns, from its let-bindings and its WHERE part
query_of(handler, bound, where) ==
    CASE handler = "handle_select" ->
             SelectQuery(bound.columns, bound.table[1], where)
      [] handler = "handle_insert" ->
             InsertQuery(bound.table[1], bound.columns, bound.values)
      [] handler = "handle_update" ->
             UpdateQuery(bound.table[1], bound.changes, where)
      [] handler = "handle_delete" ->
             DeleteQuery(bound.table[1], where)

\* parse() returns ret to its caller
Returns(ret) ==
    /\ parse_pc' = "returned"
    /\ returned' = Append(returned, ret)
    /\ locals' = NoLocals

\* An indexing of tokens past the end: the thread unwinds
Panics ==
    /\ parse_pc' = "panicked"
    /\ UNCHANGED <<locals, returned>>

\* How a statement `let x = f()?;` of a handler ends, r being what f did and
\* bound the let-bindings with x among them: on to the next statement, or
\* out of parse() with f's error by `?`, or unwinding
Statement(r, bound) ==
    /\ position' = r.self.position
    /\ CASE r.ret.tag = "Panic" -> Panics
         [] r.ret.tag = "Err" -> Returns(r.ret)
         [] r.ret.tag = "Ok" /\ following(parse_pc) # "return" ->
                /\ parse_pc' = following(parse_pc)
                /\ locals' = bound
                /\ returned' = returned
         [] r.ret.tag = "Ok" /\ following(parse_pc) = "return" ->
                Returns(Ok(query_of(handler_of(parse_pc), bound,
                                    IF parse_pc \in {"select:where", "update:where",
                                                     "delete:where"}
                                    THEN r.ret.val ELSE None)))
    /\ UNCHANGED <<tokens, lexer_vars>>

\* How a turn of a list loop ends, r being what the element's rule did and
\* bound the let-bindings with the element pushed: the loop goes on past a
\* ',' and breaks at any other token
Turn(r, bound) ==
    LET more == at_comma(r.self)
    IN  IF r.ret.tag # "Ok" THEN Statement(r, bound)
        ELSE IF more.tag = "Panic"
        THEN Statement([self |-> r.self, ret |-> more], bound)
        ELSE IF more.val
        THEN /\ position' = Parser_advance(r.self).self.position
             /\ locals' = bound
             /\ UNCHANGED <<parse_pc, returned, tokens, lexer_vars>>
        ELSE Statement(r, bound)

\* parser.parse(): the first token and the match on it
Parse ==
    /\ parse_pc \in {"new", "returned"}
    /\ Len(returned) < MaxCalls
    /\ LET start == Parser_advance(ParserSelf)
           handler == dispatch(start.ret.val)
       IN  /\ position' = start.self.position
           /\ IF start.ret.tag = "Panic" THEN Panics
              ELSE IF handler.tag = "Err" THEN Returns(handler)
              ELSE /\ parse_pc' = statements[handler.val][1]
                   /\ locals' = NoLocals
                   /\ returned' = returned
    /\ UNCHANGED <<tokens, lexer_vars>>

\* self.consume_token(..)?
ConsumeToken ==
    /\ parse_pc \in DOMAIN expected
    /\ Statement(consume_token(ParserSelf, expected[parse_pc]), locals)

\* let table = self.parse_table()?
ParseTable ==
    /\ parse_pc \in {"select:table", "insert:table", "update:table", "delete:table"}
    /\ LET r == parse_table(ParserSelf)
       IN  Statement(r, IF r.ret.tag = "Ok"
                        THEN [locals EXCEPT !.table = Some(r.ret.val)]
                        ELSE locals)

\* One turn of the loop of parse_column_list
ColumnListTurn ==
    /\ parse_pc \in {"select:columns", "insert:columns"}
    /\ LET r == parse_column(ParserSelf)
       IN  Turn(r, IF r.ret.tag = "Ok"
                   THEN [locals EXCEPT !.columns = Append(@, r.ret.val)]
                   ELSE locals)

\* One turn of the loop of parse_value_list
ValueListTurn ==
    /\ parse_pc = "insert:values"
    /\ LET r == parse_value(ParserSelf)
       IN  Turn(r, IF r.ret.tag = "Ok"
                   THEN [locals EXCEPT !.values = Append(@, r.ret.val)]
                   ELSE locals)

\* One turn of the loop of parse_set_list
SetListTurn ==
    /\ parse_pc = "update:changes"
    /\ LET r == parse_set(ParserSelf)
       IN  Turn(r, IF r.ret.tag = "Ok"
                   THEN [locals EXCEPT !.changes = Append(@, r.ret.val)]
                   ELSE locals)

\* let where_clause = if self.check_keyword("WHERE") { .. } else { None },
\* and the Ok(..Query {..}) that ends the handler
WhereClause ==
    /\ parse_pc \in {"select:where", "update:where", "delete:where"}
    /\ Statement(where_clause(ParserSelf), locals)

NextParser ==
    \/ Parse
    \/ ConsumeToken
    \/ ParseTable
    \/ ColumnListTurn
    \/ ValueListTurn
    \/ SetListTurn
    \/ WhereClause

SpecParser == InitParser /\ [][NextParser]_vars

----------------------------------------------------------------------------
(* Claims about the parser, checked under SpecParser.                      *)

\* parse() has been called once on the Parser and no second time: the call
\* is running, has returned or has panicked
FirstCall ==
    \/ parse_pc \notin {"idle", "new", "returned"} /\ returned = <<>>
    \/ parse_pc = "returned" /\ Len(returned) = 1

\* C1: a read of tokens[position] with the cursor past the end yields an
\* error value, so parse() returns a Query or a diagnostic for every token
\* sequence and never aborts on an out-of-range read.
C1_EndOfInputIsDiagnostic == parse_pc # "panicked"

\* C2: the trailing ';' is optional: a complete SELECT, INSERT, UPDATE or
\* DELETE statement parses to a Query both as it stands and followed by ';'.
C2_TrailingSemicolonOptional ==
    (/\ FirstCall
     /\ parse_pc \in {"returned", "panicked"}
     /\ \E s \in Statements : tokens = s \/ tokens = Append(s, semicolon))
        => (parse_pc = "returned" /\ returned[1].tag = "Ok")

\* C4: parse() keeps no cursor state between calls: every call of parse()
\* on one Parser returns what the first call returned.
C4_ParseStartsAtZero ==
    /\ \A i \in DOMAIN returned : returned[i] = returned[1]
    /\ (returned # <<>> => parse_pc # "panicked")

\* C5: parse() dispatches on the first token only: a first token that is no
\* Keyword gives "Expected keyword token at the beginning!", a Keyword other
\* than SELECT, INSERT, UPDATE, DELETE gives "Invalid query type", both with
\* only that token consumed; and a Query returned for SELECT, INSERT, UPDATE
\* or DELETE is the variant of that name.
C5_DispatchOnFirstToken ==
    (FirstCall /\ parse_pc = "returned") =>
        LET first == tokens[1]
            result == returned[1]
            names == [Select |-> kw.SELECT, Insert |-> kw.INSERT,
                      Update |-> kw.UPDATE, Delete |-> kw.DELETE]
        IN  /\ first.kind # "Keyword" =>
                /\ result = Err("Expected keyword token at the beginning!", <<>>)
                /\ position = 1
            /\ (first.kind = "Keyword" /\ \A n \in DOMAIN names : first.text # names[n]) =>
                /\ result = Err("Invalid query type", <<>>)
                /\ position = 1
            /\ result.tag = "Ok" =>
                /\ first.kind = "Keyword"
                /\ result.val.variant \in DOMAIN names
                /\ first.text = names[result.val.variant]

\* A statement that starts with UPDATE and has a WHERE part was parsed to
\* Query::Update
C5_Witness ==
    /\ FirstCall
    /\ parse_pc = "returned"
    /\ tokens[1] = Keyword(kw.UPDATE)
    /\ returned[1].tag = "Ok"
    /\ returned[1].val.variant = "Update"
    /\ returned[1].val.where_clause # None

\* The list a statement of a handler parses, and what may stand before an
\* element of it: the token that opens the list, or ','
list_opener ==
    [x \in {"select:columns"} |-> Keyword(kw.SELECT)]
    @@ [x \in {"insert:columns", "insert:values"} |-> Delimiter(ch.lparen)]
    @@ [x \in {"update:changes"} |-> Keyword(kw.SET)]

\* Every Query returned has its lists non-empty
C8_ListsNonEmpty ==
    \A i \in DOMAIN returned :
        returned[i].tag = "Ok" =>
            LET q == returned[i].val
            IN  /\ q.variant \in {"Select", "Insert"} =>
                    (IF q.variant = "Select" THEN q.selected_columns ELSE q.columns) # <<>>
                /\ q.variant = "Insert" => q.values # <<>>
                /\ q.variant = "Update" => q.changes # <<>>

\* A list loop stands at the start of its list or after a ','
C8_AtElement ==
    parse_pc \in DOMAIN list_opener =>
        /\ position >= 1
        /\ tokens[position] \in {list_opener[parse_pc], comma}

\* A token where an element must start that cannot start one fails parse()
\* with the element rule's error
C8_ElementError ==
    (parse_pc \in DOMAIN list_opener /\ position < Len(tokens)) =>
        LET token == tokens[position + 1]
        IN  /\ (parse_pc # "insert:values" /\ token.kind # "Identifier") =>
                /\ parse_pc' = "returned"
                /\ returned' = Append(returned, Err("Expected column name", <<>>))
            /\ (/\ parse_pc = "insert:values"
                /\ token.kind \notin {"Float", "Number", "StringLiteral"}) =>
                /\ parse_pc' = "returned"
                /\ returned' = Append(returned, Err("Expected value", <<>>))

\* C8: list productions consume at least one element: every Query returned
\* has a non-empty column list (Select, Insert), value list (Insert) and set
\* list (Update); and a token at the start of a list, or after a ',' inside
\* it, that is no valid element fails parse() with the element rule's error,
\* "Expected column name" for a column and "Expected value" for a value.
C8_ListsTakeAnElement ==
    /\ [](C8_ListsNonEmpty /\ C8_AtElement)
    /\ [][C8_ElementError]_vars

\* parse() failed with "Expected value" on the token after a ',' of a value
\* list
C8_Witness ==
    /\ FirstCall
    /\ parse_pc = "returned"
    /\ returned[1] = Err("Expected value", <<>>)
    /\ position >= 2
    /\ tokens[position - 1] = comma
    /\ tokens[1] = Keyword(kw.INSERT)

\* C9: over a non-empty token sequence that ends in ';', parse() on the new
\* Parser never reads tokens[position] with position >= the number of
\* tokens: the cursor only moves forward, it reaches the end only by
\* turning the final ';' into a diagnostic, and parse() returns a Query or
\* a diagnostic.
C9_NoReadPastFinalSemicolon ==
    /\ []((tokens # <<>> /\ tokens[Len(tokens)] = semicolon /\ FirstCall) =>
            /\ parse_pc # "panicked"
            /\ position <= Len(tokens)
            /\ position = Len(tokens) =>
                (parse_pc = "returned" /\ returned[1].tag = "Err"))
    /\ [][position' >= position]_vars

\* A statement that ends in ';' was parsed to a Query with the cursor left
\* on the ';'
C9_Witness ==
    /\ FirstCall
    /\ parse_pc = "returned"
    /\ returned[1].tag = "Ok"
    /\ position = Len(tokens) - 1
    /\ tokens[Len(tokens)] = semicolon

----------------------------------------------------------------------------
(* Claims about the lexer, checked under SpecTokenizer.                    *)

\* The index in input of the character at the cursor, the cursor being on a
\* character boundary
cursor_index == chars_before(input, current_position) + 1

\* tokenize is at the head of its loop with character c at the cursor
LexingAt(c) ==
    /\ tokenize_pc = "tokenize"
    /\ is_char_boundary(input, current_position)
    /\ cursor_index <= Len(input)
    /\ input[cursor_index] = c

\* The turn of the loop emits `token` for the n characters `text` at the
\* cursor and goes on behind them
Emits(token, text) ==
    /\ tokens' = Append(tokens, token)
    /\ current_position' = current_position + str_len(text)
    /\ tokenize_pc' = "tokenize"

\* The index behind the maximal run of word characters that starts at i
word_end(i) ==
    CHOOSE j \in i..(Len(input) + 1) :
        /\ \A k \in i..(j - 1) : is_word_char(input[k])
        /\ j = Len(input) + 1 \/ ~is_word_char(input[j])

\* C3: where the character at the cursor is alphabetic or '_', tokenize
\* emits one token for the maximal run of alphabetic-or-'_' characters:
\* Keyword(the word upper-cased) when that is a reserved word, otherwise
\* Identifier(the word as written); a leading '_' is no error.
C3_WordRule ==
    [][\A c \in Alphabet :
          (LexingAt(c) /\ is_word_char(c)) =>
              LET word == SubSeq(input, cursor_index, word_end(cursor_index) - 1)
              IN  IF to_uppercase(word) \in keywords
                  THEN Emits(Keyword(to_uppercase(word)), word)
                  ELSE Emits(Identifier(word), word)]_vars

\* C6: at '<', '>' or '!' the lexer emits the two-character Operator when
\* '=' follows at once, at '&' or '|' when the same character follows at
\* once; otherwise it emits the one-character Operator and leaves the
\* character that follows to the next turn.
C6_OperatorLexing ==
    [][\A c \in {ch.lt, ch.gt, ch.bang, ch.amp, ch.pipe} :
          LexingAt(c) =>
              LET second == IF c \in {ch.amp, ch.pipe} THEN c ELSE ch.eq
              IN  IF /\ cursor_index < Len(input)
                     /\ input[cursor_index + 1] = second
                  THEN Emits(Operator(<<c, second>>), <<c, second>>)
                  ELSE Emits(Operator(<<c>>), <<c>>)]_vars

\* "!<=" was lexed: the bare '!' alone, the '<' after it not consumed by it
\* and joined with its '='
C6_Witness ==
    /\ Len(tokens) >= 2
    /\ tokens[1] = Operator(<<ch.bang>>)
    /\ tokens[2] = Operator(<<ch.lt, ch.eq>>)

\* C7: at a quote q the lexer emits one StringLiteral holding the characters
\* strictly between q and the next q, whatever they are, and goes on behind
\* the closing quote; with no later q, tokenize fails with "Unterminated
\* string literal".
C7_StringLiteral ==
    [][\A q \in {ch.quote, ch.dquote} :
          LexingAt(q) =>
              LET later == {j \in (cursor_index + 1)..Len(input) : input[j] = q}
                  close == CHOOSE j \in later : \A k \in later : j <= k
                  content == SubSeq(input, cursor_index + 1, close - 1)
              IN  IF later # {}
                  THEN Emits(StringLiteral(content), <<q>> \o content \o <<q>>)
                  ELSE /\ tokenize_pc' = "returned"
                       /\ tokenize_result' =
                              Some(Err("Unterminated string literal", <<>>))]_vars

\* C10: the lexer never drops input: the cursor is on a character boundary
\* in every state, tokenize never aborts while slicing, and it returns a
\* token sequence only with the cursor at the end of the input.
C10_CursorOnCharBoundary ==
    /\ tokenize_pc # "panicked"
    /\ is_char_boundary(input, current_position)
    /\ (tokenize_result # None /\ tokenize_result[1].tag = "Ok") =>
           current_position = str_len(input)

====
